---- MODULE Spec2Model ----
(***************************************************************************)
(* A model of the command-line scripts of the repository:                  *)
(*   data_prep.py  the CSV -> .xlsx cleaning pipeline (helpers, the        *)
(*                 processing stages and main()),                          *)
(*   game.py       the number guessing game (NumberGuessingGame).          *)
(* Strings are sequences of one-character strings, so that strip, replace, *)
(* split and lower are computed character by character as Python does.     *)
(***************************************************************************)
EXTENDS Integers, Sequences, FiniteSets, TLC

VARIABLES
    \* ---- helpers applied to one text input (normalize / parse) ----
    tpc,                    \* position of the helper run
    raw,                    \* the input text
    name,                   \* normalize_col_name(raw)
    name2,                  \* normalize_col_name(name)
    \* ---- main() of data_prep.py ----
    pc,                     \* position in main() / process_dataframe()
    args_output,            \* args.output
    args_date_cols,         \* args.date_cols (None or a text)
    args_rename,            \* args.rename (None or a text)
    rename_map,             \* parse_rename_arg(args.rename)
    date_cols_flag,         \* date_cols_flag of main()
    rename_map_normalized,  \* rename_map_normalized of main()
    date_cols,              \* the date_cols argument of process_dataframe
    orig_cols,              \* orig_cols of process_dataframe
    df,                     \* the working DataFrame
    before,                 \* the local 'before' of process_dataframe
    called,                 \* the functions main() has invoked so far
    warnings,               \* what logger.warning has recorded
    failure,                \* the failure class main() ended in
    exit_code,              \* the code given to sys.exit
    \* ---- NumberGuessingGame ----
    gpc,                    \* position in start() / start_game()
    best_score,             \* self.best_score (None or an int)
    limit,                  \* limit of start_game()
    number,                 \* number of start_game()
    attempts,               \* attempts of start_game()
    parsed_inputs,          \* guesses of the current game that int() accepted
    invalid_inputs,         \* guesses of the current game that raised ValueError
    returned                \* the values start_game() has returned, in order

textVars == <<tpc, raw, name, name2>>
mainVars == <<pc, args_output, args_date_cols, args_rename, rename_map,
              date_cols_flag, rename_map_normalized, date_cols, orig_cols, df,
              before, called, warnings, failure, exit_code>>
gameVars == <<gpc, best_score, limit, number, attempts, parsed_inputs,
              invalid_inputs, returned>>
vars == <<textVars, mainVars, gameVars>>

----------------------------------------------------------------------------
\* Bounds of the model.

\* longest text given to the helpers
MaxLen == 5
\* most rows a loaded table has
MaxRows == 3
\* most games played in one run of start()
MaxGames == 2
\* most integer guesses in one game
MaxAttempts == 3
\* most non-integer guesses in one game
MaxInvalid == 1

----------------------------------------------------------------------------
\* Python values.

\* Optional[T]: None is the empty sequence, a value v is <<v>>.
None == <<>>
Some(v) == <<v>>
IsNone(o) == o = <<>>
Value(o) == o[1]

Range(s) == {s[i] : i \in 1..Len(s)}

RECURSIVE SeqsUpTo(_, _)
SeqsUpTo(S, n) ==
    IF n = 0 THEN {<<>>}
    ELSE LET shorter == SeqsUpTo(S, n - 1)
         IN  shorter \cup {Append(s, c) : s \in {t \in shorter : Len(t) = n - 1}, c \in S}

\* str.isspace() on the characters of the model
Whitespace == {" ", "\t"}

\* str.lower() of one character
LowerChar(c) ==
    CASE c = "A" -> "a"
      [] c = "D" -> "d"
      [] c = "X" -> "x"
      [] c = "L" -> "l"
      [] c = "S" -> "s"
      [] c = "N" -> "n"
      [] OTHER -> c

\* str.lower()
Lower(s) == [i \in 1..Len(s) |-> LowerChar(s[i])]

\* str.strip(): leading and trailing whitespace removed
RECURSIVE LStrip(_)
LStrip(s) ==
    IF s # <<>> /\ s[1] \in Whitespace THEN LStrip(Tail(s)) ELSE s

RECURSIVE RStrip(_)
RStrip(s) ==
    IF s # <<>> /\ s[Len(s)] \in Whitespace
    THEN RStrip(SubSeq(s, 1, Len(s) - 1))
    ELSE s

Strip(s) == RStrip(LStrip(s))

\* sub in s (substring test)
Contains(s, sub) ==
    \E i \in 1..(Len(s) - Len(sub) + 1) : SubSeq(s, i, i + Len(sub) - 1) = sub

\* s.replace(old, new) for a one-character old
ReplaceChar(s, old, new) == [i \in 1..Len(s) |-> IF s[i] = old THEN new ELSE s[i]]

\* s.replace("__", "_"): non-overlapping occurrences, left to right, one pass
RECURSIVE ReplaceDouble(_)
ReplaceDouble(s) ==
    IF Len(s) < 2 THEN s
    ELSE IF s[1] = "_" /\ s[2] = "_"
         THEN <<"_">> \o ReplaceDouble(SubSeq(s, 3, Len(s)))
         ELSE <<s[1]>> \o ReplaceDouble(Tail(s))

\* while "__" in name: name = name.replace("__", "_")
RECURSIVE CollapseUnderscores(_)
CollapseUnderscores(s) ==
    IF Contains(s, <<"_", "_">>) THEN CollapseUnderscores(ReplaceDouble(s)) ELSE s

\* A bug the loop guards against: a single replace pass, no loop.
normalize_single_pass(nm) ==
    Lower(ReplaceDouble(
        ReplaceChar(ReplaceChar(ReplaceChar(ReplaceChar(ReplaceChar(
            Strip(nm), " ", "_"), "-", "_"), "/", "_"), "\\", "_"), ".", "_")))

\* normalize_col_name(name)
normalize_col_name(nm) ==
    Lower(CollapseUnderscores(
        ReplaceChar(ReplaceChar(ReplaceChar(ReplaceChar(ReplaceChar(
            Strip(nm), " ", "_"), "-", "_"), "/", "_"), "\\", "_"), ".", "_")))

----------------------------------------------------------------------------
\* A Python dict: the sequence of its <<key, value>> items in insertion order,
\* keys pairwise distinct.

EmptyDict == <<>>
Keys(d) == {d[i][1] : i \in 1..Len(d)}
Lookup(d, k) == d[CHOOSE i \in 1..Len(d) : d[i][1] = k][2]

\* d[k] = v: an existing key keeps its place, a new key is appended
DictSet(d, k, v) ==
    IF k \in Keys(d)
    THEN [i \in 1..Len(d) |-> IF d[i][1] = k THEN <<k, v>> ELSE d[i]]
    ELSE Append(d, <<k, v>>)

\* s.split(sep) for a one-character sep
RECURSIVE Split(_, _)
Split(s, sep) ==
    IF \A i \in 1..Len(s) : s[i] # sep THEN <<s>>
    ELSE LET i == CHOOSE j \in 1..Len(s) :
                      s[j] = sep /\ \A k \in 1..(j - 1) : s[k] # sep
         IN  <<SubSeq(s, 1, i - 1)>> \o Split(SubSeq(s, i + 1, Len(s)), sep)

\* [p.strip() for p in parts if p.strip()]
RECURSIVE StripNonEmpty(_)
StripNonEmpty(parts) ==
    IF parts = <<>> THEN <<>>
    ELSE IF Strip(Head(parts)) = <<>> THEN StripNonEmpty(Tail(parts))
         ELSE <<Strip(Head(parts))>> \o StripNonEmpty(Tail(parts))

\* pair.split(":", 1): the text before and after the first colon
FirstColon(pair) == CHOOSE j \in 1..Len(pair) :
                        pair[j] = ":" /\ \A k \in 1..(j - 1) : pair[k] # ":"
OldOf(pair) == SubSeq(pair, 1, FirstColon(pair) - 1)
NewOf(pair) == SubSeq(pair, FirstColon(pair) + 1, Len(pair))

\* the for loop of parse_rename_arg over the remaining pairs
RECURSIVE ParsePairs(_, _)
ParsePairs(pairs, mapping) ==
    IF pairs = <<>> THEN mapping
    ELSE LET pair == Head(pairs)
         IN  IF ":" \notin Range(pair)
             THEN ParsePairs(Tail(pairs), mapping)
             ELSE ParsePairs(Tail(pairs),
                             DictSet(mapping, normalize_col_name(OldOf(pair)),
                                     Strip(NewOf(pair))))

\* A bug: the first value given for a key is kept instead of the last.
RECURSIVE ParsePairsKeepFirst(_, _)
ParsePairsKeepFirst(pairs, mapping) ==
    IF pairs = <<>> THEN mapping
    ELSE LET pair == Head(pairs)
             k == normalize_col_name(OldOf(pair))
         IN  IF ":" \notin Range(pair) \/ k \in Keys(mapping)
             THEN ParsePairsKeepFirst(Tail(pairs), mapping)
             ELSE ParsePairsKeepFirst(Tail(pairs),
                                      DictSet(mapping, k, Strip(NewOf(pair))))

parse_rename_arg_keep_first(arg) ==
    IF IsNone(arg) \/ Value(arg) = <<>> THEN EmptyDict
    ELSE ParsePairsKeepFirst(StripNonEmpty(Split(Value(arg), ",")), EmptyDict)

\* parse_rename_arg(arg)
parse_rename_arg(arg) ==
    IF IsNone(arg) \/ Value(arg) = <<>> THEN EmptyDict
    ELSE ParsePairs(StripNonEmpty(Split(Value(arg), ",")), EmptyDict)

\* the pairs parse_rename_arg warns about ("Ignoring invalid rename pair")
InvalidRenamePairs(arg) ==
    IF IsNone(arg) \/ Value(arg) = <<>> THEN {}
    ELSE {p \in Range(StripNonEmpty(Split(Value(arg), ","))) : ":" \notin Range(p)}

\* {normalize_col_name(k): v for k, v in rename_map.items()}
RECURSIVE NormalizeKeys(_, _)
NormalizeKeys(items, acc) ==
    IF items = <<>> THEN acc
    ELSE NormalizeKeys(Tail(items),
                       DictSet(acc, normalize_col_name(Head(items)[1]), Head(items)[2]))

----------------------------------------------------------------------------
\* The tables of the model.  A DataFrame is its column labels and its rows;
\* a cell is null (NaN / NaT), a text, or a parsed datetime.

NullCell == [kind |-> "null", val |-> <<>>]
Str(s) == [kind |-> "str", val |-> s]
Date(s) == [kind |-> "date", val |-> s]
IsNull(c) == c.kind = "null"

EmptyDF == [cols |-> <<>>, rows |-> <<>>]

\* the values of the variables of a part of the program that is not running
MainIdle ==
    /\ pc = "idle" /\ args_output = <<>> /\ args_date_cols = None
    /\ args_rename = None /\ rename_map = EmptyDict /\ date_cols_flag = <<>>
    /\ rename_map_normalized = EmptyDict /\ date_cols = <<>> /\ orig_cols = <<>>
    /\ df = EmptyDF /\ before = 0 /\ called = {} /\ warnings = {}
    /\ failure = "none" /\ exit_code = None
TextIdle ==
    tpc = "idle" /\ raw = <<>> /\ name = <<>> /\ name2 = <<>>
GameIdle ==
    /\ gpc = "idle" /\ best_score = None /\ limit = 0 /\ number = 0
    /\ attempts = 0 /\ parsed_inputs = 0 /\ invalid_inputs = 0 /\ returned = <<>>

----------------------------------------------------------------------------
\* The helpers of data_prep.py applied to one text: normalize_col_name twice,
\* then parse_rename_arg and the key normalization of main().

NameAlphabet == {"A", "a", " ", "\t", "-", "_"}
ArgAlphabet == {"A", "x", ",", ":", " "}
TextInputs == SeqsUpTo(NameAlphabet, MaxLen) \cup SeqsUpTo(ArgAlphabet, MaxLen)

TextInit ==
    /\ MainIdle /\ GameIdle
    /\ tpc = "start"
    /\ raw \in TextInputs
    /\ name = <<>> /\ name2 = <<>>

textRest == <<pc, args_output, args_date_cols, date_cols_flag, date_cols, orig_cols,
              df, before, called, warnings, failure, exit_code>>

\* name = normalize_col_name(raw)
NormalizeName ==
    /\ tpc = "start"
    /\ name' = normalize_col_name(raw)
    /\ tpc' = "normalized"
    /\ UNCHANGED <<raw, name2, args_rename, rename_map, rename_map_normalized,
                   textRest, gameVars>>

\* name2 = normalize_col_name(name)
NormalizeAgain ==
    /\ tpc = "normalized"
    /\ name2' = normalize_col_name(name)
    /\ tpc' = "renormalized"
    /\ UNCHANGED <<raw, name, args_rename, rename_map, rename_map_normalized,
                   textRest, gameVars>>

\* rename_map = parse_rename_arg(args.rename), the option absent or the text
ParseRename ==
    /\ tpc = "renormalized"
    /\ \E given \in BOOLEAN :
           /\ args_rename' = IF given THEN Some(raw) ELSE None
           /\ rename_map' = parse_rename_arg(args_rename')
    /\ tpc' = "parsed"
    /\ UNCHANGED <<raw, name, name2, rename_map_normalized, textRest, gameVars>>

\* rename_map_normalized = {normalize_col_name(k): v for k, v in rename_map.items()}
NormalizeRenameKeys ==
    /\ tpc = "parsed"
    /\ rename_map_normalized' = NormalizeKeys(rename_map, EmptyDict)
    /\ tpc' = "keys_normalized"
    /\ UNCHANGED <<raw, name, name2, args_rename, rename_map, textRest, gameVars>>

TextNext == NormalizeName \/ NormalizeAgain \/ ParseRename \/ NormalizeRenameKeys

SpecText == TextInit /\ [][TextNext]_vars

----------------------------------------------------------------------------
\* Claims about the helpers (checked under SpecText).

NameComputed == tpc \in {"normalized", "renormalized", "parsed", "keys_normalized"}

\* C1 (as claimed): for every input, normalize_col_name returns a text that is
\* lower-case, holds no whitespace character anywhere (interior tabs too) and
\* holds no run of two or more underscores.
C1_NormalizedIsCanonical ==
    NameComputed =>
        /\ \A i \in 1..Len(name) : LowerChar(name[i]) = name[i]
        /\ \A i \in 1..Len(name) : name[i] \notin Whitespace
        /\ ~Contains(name, <<"_", "_">>)

\* The comma-separated entries of a rename specification, by position: an entry
\* starts after position b (0 or the place of a comma) and ends before the next
\* comma or the end of the text.
EntryStarts(s) == {0} \cup {i \in 1..Len(s) : s[i] = ","}
EntryEnd(s, b) ==
    CHOOSE j \in (b + 1)..(Len(s) + 1) :
        /\ j = Len(s) + 1 \/ s[j] = ","
        /\ \A k \in (b + 1)..(j - 1) : s[k] # ","
EntryAt(s, b) == SubSeq(s, b + 1, EntryEnd(s, b) - 1)
ColonEntries(s) == {b \in EntryStarts(s) : ":" \in Range(EntryAt(s, b))}
EntryKey(s, b) == normalize_col_name(OldOf(EntryAt(s, b)))
EntryValue(s, b) == Strip(NewOf(EntryAt(s, b)))
RenameText == IF IsNone(args_rename) THEN <<>> ELSE Value(args_rename)

\* C6: parse_rename_arg returns exactly the mapping that has, for each
\* comma-separated entry holding a colon, the normalized text before the first
\* colon mapped to the trimmed text after it, a later entry with the same key
\* overriding an earlier one; entries without a colon contribute nothing, and
\* an empty or absent specification yields the empty mapping.
C6_ParseRenameArg ==
    tpc \in {"parsed", "keys_normalized"} =>
        LET s == RenameText
            E == ColonEntries(s)
        IN  /\ Keys(rename_map) = {EntryKey(s, b) : b \in E}
            /\ Len(rename_map) = Cardinality(Keys(rename_map))
            /\ \A b \in E :
                   (\A later \in E : later > b => EntryKey(s, later) # EntryKey(s, b))
                       => Lookup(rename_map, EntryKey(s, b)) = EntryValue(s, b)
            /\ (IsNone(args_rename) \/ s = <<>>) => rename_map = EmptyDict

\* C6 witness: a specification parsed in which a later entry overrides the
\* value an earlier entry gave to the same normalized key.
C6_Witness ==
    /\ tpc = "parsed"
    /\ \E b1, b2 \in ColonEntries(RenameText) :
           /\ b1 < b2
           /\ EntryKey(RenameText, b1) = EntryKey(RenameText, b2)
           /\ EntryValue(RenameText, b1) # EntryValue(RenameText, b2)
           /\ Lookup(rename_map, EntryKey(RenameText, b2)) = EntryValue(RenameText, b2)

\* C8: normalize_col_name is idempotent, and so the second normalization of the
\* rename keys in main() leaves the mapping of parse_rename_arg unchanged.
C8_NormalizeIdempotent ==
    /\ tpc \in {"renormalized", "parsed", "keys_normalized"} => name2 = name
    /\ tpc = "keys_normalized" => rename_map_normalized = rename_map

\* C8 witness: a text that normalization changed, normalized a second time, and
\* a non-empty rename mapping whose keys were normalized again.
C8_Witness ==
    /\ tpc = "keys_normalized"
    /\ name # raw
    /\ name2 = name
    /\ rename_map # EmptyDict
    /\ \E i \in 1..Len(rename_map) : rename_map[i][1] # <<>>

----------------------------------------------------------------------------
\* pandas operations on the tables of the model.

AllNull(row) == \A j \in 1..Len(row) : IsNull(row[j])
AnyNull(row) == \E j \in 1..Len(row) : IsNull(row[j])
NonNullCount(row) == Cardinality({j \in 1..Len(row) : ~IsNull(row[j])})

\* df.rename(columns=mapping): every label that is a key gets its value
RenameCols(d, mapping) ==
    [d EXCEPT !.cols = [i \in 1..Len(d.cols) |->
        IF d.cols[i] \in Keys(mapping) THEN Lookup(mapping, d.cols[i]) ELSE d.cols[i]]]

\* {k: v for k, v in rename_map.items() if k in df.columns}
RECURSIVE Applicable(_, _)
Applicable(items, cols) ==
    IF items = <<>> THEN EmptyDict
    ELSE IF Head(items)[1] \in Range(cols)
         THEN <<Head(items)>> \o Applicable(Tail(items), cols)
         ELSE Applicable(Tail(items), cols)

\* df.select_dtypes(include=["object"]).columns: the columns holding text
ObjectCols(d) ==
    {j \in 1..Len(d.cols) : \E i \in 1..Len(d.rows) : d.rows[i][j].kind = "str"}

\* s.str.strip() on one cell of an object column
StripCell(c) == IF c.kind = "str" THEN Str(Strip(c.val)) ELSE c

\* df[obj_cols] = df[obj_cols].apply(lambda s: s.str.strip())
StripObjectCols(d) ==
    [d EXCEPT !.rows = [i \in 1..Len(d.rows) |-> [j \in 1..Len(d.cols) |->
        IF j \in ObjectCols(d) THEN StripCell(d.rows[i][j]) ELSE d.rows[i][j]]]]

\* the texts pd.to_datetime parses
DateTexts == {<<"2", "0", "2", "4", "-", "0", "1", "-", "0", "1">>}

\* pd.to_datetime(cell, errors="coerce"): a text that is no date becomes NaT
ToDatetime(c) ==
    IF c.kind = "str" /\ c.val \in DateTexts THEN Date(c.val)
    ELSE IF c.kind = "date" THEN c
    ELSE NullCell

\* the body of the loop of try_parse_dates for one name c: an absent name is
\* skipped; a label borne by several columns makes df[c] a DataFrame, on which
\* pd.to_datetime raises, and the except clause leaves the table as it is
ParseDateCol(d, c) ==
    LET at == {j \in 1..Len(d.cols) : d.cols[j] = c}
    IN  IF Cardinality(at) # 1 THEN d
        ELSE [d EXCEPT !.rows = [i \in 1..Len(d.rows) |-> [j \in 1..Len(d.cols) |->
                 IF j \in at THEN ToDatetime(d.rows[i][j]) ELSE d.rows[i][j]]]]

\* A bug: the loop runs over the columns of the table, not over cols.
try_parse_dates_every_col(d, cols) ==
    [d EXCEPT !.rows = [i \in 1..Len(d.rows) |-> [j \in 1..Len(d.cols) |->
        ToDatetime(d.rows[i][j])]]]

\* try_parse_dates(df, cols)
RECURSIVE try_parse_dates(_, _)
try_parse_dates(d, cols) ==
    IF cols = <<>> THEN d
    ELSE try_parse_dates(ParseDateCol(d, Head(cols)), Tail(cols))

\* the warnings try_parse_dates logs (names not found, columns that failed)
DateWarnings(d, cols) ==
    {[kind |-> "date_col_not_found", text |-> c] :
        c \in {x \in Range(cols) : x \notin Range(d.cols)}}
    \cup
    {[kind |-> "date_parse_failed", text |-> c] :
        c \in {x \in Range(cols) : Cardinality({j \in 1..Len(d.cols) : d.cols[j] = x}) > 1}}

\* df.dropna(how=how): "all" drops the rows whose every cell is null, "any"
\* the rows holding a null cell
RECURSIVE DropNa(_, _)
DropNa(rows, how) ==
    IF rows = <<>> THEN <<>>
    ELSE IF (how = "all" /\ AllNull(Head(rows))) \/ (how = "any" /\ AnyNull(Head(rows)))
         THEN DropNa(Tail(rows), how)
         ELSE <<Head(rows)>> \o DropNa(Tail(rows), how)

\* A bug: how="any" where how="all" is meant.
DropEmptyRowsAny(rows) == DropNa(rows, "any")

\* df = df.dropna(how="all") of process_dataframe
DropEmptyRowsOf(rows) == DropNa(rows, "all")

\* df.dropna(thresh=n): rows with at least n non-null cells are kept
RECURSIVE DropNaThresh(_, _)
DropNaThresh(rows, n) ==
    IF rows = <<>> THEN <<>>
    ELSE IF NonNullCount(Head(rows)) < n THEN DropNaThresh(Tail(rows), n)
         ELSE <<Head(rows)>> \o DropNaThresh(Tail(rows), n)

\* df.fillna(value)
FillNa(d, value) ==
    [d EXCEPT !.rows = [i \in 1..Len(d.rows) |-> [j \in 1..Len(d.cols) |->
        IF IsNull(d.rows[i][j]) THEN Str(value) ELSE d.rows[i][j]]]]

\* auto_detect_date_cols(df)
RECURSIVE auto_detect_date_cols(_)
auto_detect_date_cols(cols) ==
    IF cols = <<>> THEN <<>>
    ELSE LET c == Lower(Head(cols))
         IN  IF \/ Contains(c, <<"d", "a", "t", "e">>)
                \/ Contains(c, <<"t", "i", "m", "e">>)
                \/ Contains(c, <<"c", "r", "e", "a", "t", "e", "d">>)
                \/ Contains(c, <<"u", "p", "d", "a", "t", "e", "d">>)
             THEN <<Head(cols)>> \o auto_detect_date_cols(Tail(cols))
             ELSE auto_detect_date_cols(Tail(cols))

\* load_and_concat(files): the one table, or pd.concat(dfs, ignore_index=True)
\* of tables that share their header
RECURSIVE ConcatRows(_)
ConcatRows(dfs) ==
    IF dfs = <<>> THEN <<>> ELSE Head(dfs).rows \o ConcatRows(Tail(dfs))
load_and_concat(dfs) ==
    IF Len(dfs) = 1 THEN dfs[1]
    ELSE [cols |-> dfs[1].cols, rows |-> ConcatRows(dfs)]

\* Path(p).suffix: from the last dot of the name, unless the name starts or
\* ends with it
Suffix(p) ==
    LET dots == {i \in 1..Len(p) : p[i] = "."}
    IN  IF dots = {} THEN <<>>
        ELSE LET i == CHOOSE d \in dots : \A e \in dots : e <= d
             IN  IF i > 1 /\ i < Len(p) THEN SubSeq(p, i, Len(p)) ELSE <<>>

\* A bug: the extension is never checked.
OutputAccepted(p) == TRUE

\* not (output_path.suffix.lower() != ".xlsx")
HasXlsxSuffix(p) == Lower(Suffix(p)) = <<".", "x", "l", "s", "x">>

\* [c.strip() for c in args.date_cols.split(",") if c.strip()], or [] when
\* args.date_cols is falsy (None or the empty text)
DateColsFlag(arg) ==
    IF IsNone(arg) \/ Value(arg) = <<>> THEN <<>>
    ELSE StripNonEmpty(Split(Value(arg), ","))

\* [normalize_col_name(c) for c in date_cols_flag]
NormalizeAll(names) == [i \in 1..Len(names) |-> normalize_col_name(names[i])]

----------------------------------------------------------------------------
\* main() of data_prep.py.

\* the codes main() gives to sys.exit
ExitInputMissing == 2
ExitBadExtension == 2
ExitLoadFailed == 3
ExitProcessingFailed == 4
ExitExportFailed == 5

FailureClasses ==
    {"input_missing", "bad_extension", "load_failed", "processing_failed", "export_failed"}

ExitCodeOf(class) ==
    CASE class = "input_missing" -> ExitInputMissing
      [] class = "bad_extension" -> ExitBadExtension
      [] class = "load_failed" -> ExitLoadFailed
      [] class = "processing_failed" -> ExitProcessingFailed
      [] class = "export_failed" -> ExitExportFailed

\* the command lines of the model
Outputs ==
    { <<"o", ".", "x", "l", "s", "x">>, <<"o", ".", "X", "L", "S", "X">>,
      <<"o", ".", "c", "s", "v">>, <<"o">> }
DateColsArgs ==
    { None, Some(<<>>), Some(<<" ", ",">>), Some(<<"D", "a", "t", "e">>), Some(<<"x">>) }
RenameArgs ==
    { None,
      Some(<<"D", "a", "t", "e", ":", "d">>),
      Some(<<"D", "a", "t", "e", ":", "d", ",", "x", ":", "d", "a", "t", "e">>),
      Some(<<"x", ":", "y", ",", "q">>) }

\* the CSV files of the model: headers pairwise distinct, two columns
Headers ==
    { << <<"D", "a", "t", "e">>, <<"x">> >>,
      << <<"N", "a", "m", "e", " ">>, <<"S", "a", "l", "e", "-", "D", "a", "t", "e">> >>,
      << <<"A">>, <<"a">> >> }
RowChoices ==
    { <<NullCell, NullCell>>,
      <<Str(<<" ", "z">>), NullCell>>,
      <<NullCell, Str(<<"2", "0", "2", "4", "-", "0", "1", "-", "0", "1">>)>>,
      <<Str(<<"2", "0", "2", "4", "-", "0", "1", "-", "0", "1">>), Str(<<"q", " ">>)>> }
FillValues == { None, Some(<<"0">>) }
ThreshValues == { None, Some(0), Some(1), Some(2) }

ProcessStages ==
    {"normalize", "rename", "strip", "parse_dates", "drop_empty", "drop_any",
     "drop_thresh", "fill"}

Init ==
    /\ TextIdle /\ GameIdle
    /\ pc = "check_inputs"
    /\ args_output \in Outputs
    /\ args_date_cols \in DateColsArgs
    /\ args_rename \in RenameArgs
    /\ rename_map = EmptyDict /\ date_cols_flag = <<>>
    /\ rename_map_normalized = EmptyDict /\ date_cols = <<>> /\ orig_cols = <<>>
    /\ df = EmptyDF /\ before = 0 /\ called = {} /\ warnings = {}
    /\ failure = "none" /\ exit_code = None

argVars == <<args_output, args_date_cols, args_rename>>

\* sys.exit(code) after logger.error
Exit(class) ==
    /\ pc' = "exit"
    /\ failure' = class
    /\ exit_code' = Some(ExitCodeOf(class))

\* for f in input_files: if not f.exists(): sys.exit(2)
CheckInputs ==
    /\ pc = "check_inputs"
    /\ \E all_exist \in BOOLEAN :
           IF all_exist
           THEN pc' = "check_output" /\ UNCHANGED <<failure, exit_code>>
           ELSE Exit("input_missing")
    /\ UNCHANGED <<argVars, rename_map, date_cols_flag, rename_map_normalized,
                   date_cols, orig_cols, df, before, called, warnings,
                   textVars, gameVars>>

\* if output_path.suffix.lower() != ".xlsx": sys.exit(2)
CheckOutput ==
    /\ pc = "check_output"
    /\ IF HasXlsxSuffix(args_output)
       THEN pc' = "parse_options" /\ UNCHANGED <<failure, exit_code>>
       ELSE Exit("bad_extension")
    /\ UNCHANGED <<argVars, rename_map, date_cols_flag, rename_map_normalized,
                   date_cols, orig_cols, df, before, called, warnings,
                   textVars, gameVars>>

\* rename_map = parse_rename_arg(args.rename); date_cols_flag from args.date_cols
ParseOptions ==
    /\ pc = "parse_options"
    /\ rename_map' = parse_rename_arg(args_rename)
    /\ warnings' = warnings \cup
           {[kind |-> "invalid_rename_pair", text |-> p] : p \in InvalidRenamePairs(args_rename)}
    /\ date_cols_flag' = DateColsFlag(args_date_cols)
    /\ pc' = "load"
    /\ UNCHANGED <<argVars, rename_map_normalized, date_cols, orig_cols, df, before,
                   called, failure, exit_code, textVars, gameVars>>

\* df = load_and_concat(input_files): one file, or two whose rows are concatenated
Load ==
    /\ pc = "load"
    /\ called' = called \cup {"load_and_concat"}
    /\ \E h \in Headers, rows \in SeqsUpTo(RowChoices, MaxRows) :
       \E cut \in 0..Len(rows), two \in BOOLEAN :
           LET files == IF two
                        THEN << [cols |-> h, rows |-> SubSeq(rows, 1, cut)],
                                [cols |-> h, rows |-> SubSeq(rows, cut + 1, Len(rows))] >>
                        ELSE << [cols |-> h, rows |-> rows] >>
           IN  df' = load_and_concat(files)
    /\ pc' = "auto_detect"
    /\ UNCHANGED <<argVars, rename_map, date_cols_flag, rename_map_normalized,
                   date_cols, orig_cols, before, warnings, failure, exit_code,
                   textVars, gameVars>>

\* pd.read_csv raises: "Could not load input CSV(s)", sys.exit(3)
LoadFail ==
    /\ pc = "load"
    /\ called' = called \cup {"load_and_concat"}
    /\ Exit("load_failed")
    /\ UNCHANGED <<argVars, rename_map, date_cols_flag, rename_map_normalized,
                   date_cols, orig_cols, df, before, warnings, textVars, gameVars>>

\* if not date_cols_flag: auto = auto_detect_date_cols(df) ...
AutoDetect ==
    /\ pc = "auto_detect"
    /\ IF date_cols_flag = <<>>
       THEN /\ called' = called \cup {"auto_detect_date_cols"}
            /\ date_cols_flag' = auto_detect_date_cols(df.cols)
       ELSE UNCHANGED <<called, date_cols_flag>>
    /\ pc' = "normalize_keys"
    /\ UNCHANGED <<argVars, rename_map, rename_map_normalized, date_cols, orig_cols,
                   df, before, warnings, failure, exit_code, textVars, gameVars>>

\* rename_map_normalized = {normalize_col_name(k): v for k, v in rename_map.items()}
PrepareRenameMap ==
    /\ pc = "normalize_keys"
    /\ rename_map_normalized' = NormalizeKeys(rename_map, EmptyDict)
    /\ pc' = "call_process"
    /\ UNCHANGED <<argVars, rename_map, date_cols_flag, date_cols, orig_cols, df,
                   before, called, warnings, failure, exit_code, textVars, gameVars>>

\* processed = process_dataframe(df, date_cols=[normalize_col_name(c) ...], ...)
CallProcess ==
    /\ pc = "call_process"
    /\ called' = called \cup {"process_dataframe"}
    /\ date_cols' = NormalizeAll(date_cols_flag)
    /\ pc' = "normalize"
    /\ UNCHANGED <<argVars, rename_map, date_cols_flag, rename_map_normalized,
                   orig_cols, df, before, warnings, failure, exit_code,
                   textVars, gameVars>>

----------------------------------------------------------------------------
\* process_dataframe(), one action per numbered step and sub-step.

procRest == <<argVars, rename_map, date_cols_flag, rename_map_normalized, date_cols,
              called, failure, exit_code, textVars, gameVars>>

\* 1. orig_cols = list(df.columns); df = df.rename(columns=normalized_map)
NormalizeColumns ==
    /\ pc = "normalize"
    /\ orig_cols' = df.cols
    /\ df' = [df EXCEPT !.cols = NormalizeAll(df.cols)]
    /\ pc' = "rename"
    /\ UNCHANGED <<before, warnings, procRest>>

\* 2. apply the rename map to the columns that exist
ApplyRenames ==
    /\ pc = "rename"
    /\ LET applicable == Applicable(rename_map_normalized, df.cols)
       IN  IF rename_map_normalized = EmptyDict
           THEN UNCHANGED <<df, warnings>>
           ELSE IF applicable # EmptyDict
                THEN df' = RenameCols(df, applicable) /\ UNCHANGED warnings
                ELSE /\ warnings' = warnings \cup
                            {[kind |-> "no_rename_matched", text |-> <<>>]}
                     /\ UNCHANGED df
    /\ pc' = "strip"
    /\ UNCHANGED <<orig_cols, before, procRest>>

\* 3. strip the text of the object columns (strip_strings is True in main's call)
StripStrings ==
    /\ pc = "strip"
    /\ df' = StripObjectCols(df)
    /\ pc' = "parse_dates"
    /\ UNCHANGED <<orig_cols, before, warnings, procRest>>

\* 4. if date_cols: df = try_parse_dates(df, date_cols)
ParseDates ==
    /\ pc = "parse_dates"
    /\ IF date_cols # <<>>
       THEN /\ df' = try_parse_dates(df, date_cols)
            /\ warnings' = warnings \cup DateWarnings(df, date_cols)
       ELSE UNCHANGED <<df, warnings>>
    /\ pc' = "drop_empty"
    /\ UNCHANGED <<orig_cols, before, procRest>>

\* 5. before = len(df); df = df.dropna(how="all")
DropEmptyRows ==
    /\ pc = "drop_empty"
    /\ before' = Len(df.rows)
    /\ df' = [df EXCEPT !.rows = DropEmptyRowsOf(df.rows)]
    /\ pc' = "drop_any"
    /\ UNCHANGED <<orig_cols, warnings, procRest>>

\* if dropna_any: before = len(df); df = df.dropna(how="any")
DropAnyMissing ==
    /\ pc = "drop_any"
    /\ \E dropna_any \in BOOLEAN :
           IF dropna_any
           THEN /\ before' = Len(df.rows)
                /\ df' = [df EXCEPT !.rows = DropNa(df.rows, "any")]
           ELSE UNCHANGED <<before, df>>
    /\ pc' = "drop_thresh"
    /\ UNCHANGED <<orig_cols, warnings, procRest>>

\* if dropna_thresh: before = len(df); df = df.dropna(thresh=dropna_thresh)
DropBelowThresh ==
    /\ pc = "drop_thresh"
    /\ \E dropna_thresh \in ThreshValues :
           IF ~IsNone(dropna_thresh) /\ Value(dropna_thresh) # 0
           THEN /\ before' = Len(df.rows)
                /\ df' = [df EXCEPT !.rows = DropNaThresh(df.rows, Value(dropna_thresh))]
           ELSE UNCHANGED <<before, df>>
    /\ pc' = "fill"
    /\ UNCHANGED <<orig_cols, warnings, procRest>>

\* if fillna_value is not None: df = df.fillna(fillna_value); return df
FillMissing ==
    /\ pc = "fill"
    /\ \E fillna_value \in FillValues :
           IF ~IsNone(fillna_value)
           THEN df' = FillNa(df, Value(fillna_value))
           ELSE UNCHANGED df
    /\ pc' = "export"
    /\ UNCHANGED <<orig_cols, before, warnings, procRest>>

\* an exception leaves process_dataframe: "Processing failed", sys.exit(4)
ProcessFail ==
    /\ pc \in ProcessStages
    /\ Exit("processing_failed")
    /\ UNCHANGED <<argVars, rename_map, date_cols_flag, rename_map_normalized,
                   date_cols, orig_cols, df, before, called, warnings,
                   textVars, gameVars>>

\* export_to_excel(processed, output_path) succeeds: "All done"
Export ==
    /\ pc = "export"
    /\ called' = called \cup {"export_to_excel"}
    /\ pc' = "done"
    /\ UNCHANGED <<argVars, rename_map, date_cols_flag, rename_map_normalized,
                   date_cols, orig_cols, df, before, warnings, failure, exit_code,
                   textVars, gameVars>>

\* df.to_excel raises: "Export failed", sys.exit(5)
ExportFail ==
    /\ pc = "export"
    /\ called' = called \cup {"export_to_excel"}
    /\ Exit("export_failed")
    /\ UNCHANGED <<argVars, rename_map, date_cols_flag, rename_map_normalized,
                   date_cols, orig_cols, df, before, warnings, textVars, gameVars>>

Next ==
    \/ CheckInputs \/ CheckOutput \/ ParseOptions \/ Load \/ LoadFail
    \/ AutoDetect \/ PrepareRenameMap \/ CallProcess
    \/ NormalizeColumns \/ ApplyRenames \/ StripStrings \/ ParseDates
    \/ DropEmptyRows \/ DropAnyMissing \/ DropBelowThresh \/ FillMissing
    \/ ProcessFail \/ Export \/ ExportFail

Spec == Init /\ [][Next]_vars

----------------------------------------------------------------------------
\* Claims about main() and process_dataframe() (checked under Spec).

Distinct(q) == \A i, j \in 1..Len(q) : i # j => q[i] # q[j]
AfterNormalizer ==
    {"rename", "strip", "parse_dates", "drop_empty", "drop_any", "drop_thresh",
     "fill", "export", "done"}
NormalizedHeaders == {normalize_col_name(c) : c \in Range(orig_cols)}

\* C2 (as claimed): after the Normalizer and after the Renamer the column names
\* of the working table are pairwise distinct, whenever the raw headers are
\* pairwise distinct and no rename target names another existing column.
C2_ColumnNamesDistinct ==
    ( /\ pc \in AfterNormalizer
      /\ Distinct(orig_cols)
      /\ \A k \in Keys(rename_map_normalized) :
             k \in NormalizedHeaders =>
                 Lookup(rename_map_normalized, k) \notin NormalizedHeaders \ {k} )
    => Distinct(df.cols)

\* C3 (as claimed): every fatal failure class ends main() with an exit code of
\* its own: no other failure class has the code of the failure that happened,
\* and the code is not that of success.
C3_DistinctExitCodes ==
    pc = "exit" =>
        /\ \A other \in FailureClasses \ {failure} : Some(ExitCodeOf(other)) # exit_code
        /\ exit_code # Some(0)
        /\ exit_code # None

PipelineCalls == {"load_and_concat", "process_dataframe", "export_to_excel"}

\* C4: when the suffix of the output path is not .xlsx (in any letter case, as
\* main() compares it), main() never invokes load_and_concat, process_dataframe
\* or export_to_excel, whatever the other options are.
C4_BadExtensionReadsNothing ==
    Lower(Suffix(args_output)) # <<".", "x", "l", "s", "x">> =>
        /\ called \cap PipelineCalls = {}
        /\ pc \in {"check_inputs", "check_output", "exit"}
        /\ df = EmptyDF

\* C4 witness: main() has ended on the output path o.csv, its inputs existing.
C4_Witness ==
    /\ pc = "exit"
    /\ failure = "bad_extension"
    /\ args_output = <<"o", ".", "c", "s", "v">>
    /\ called = {}

HasValue(row) == \E j \in 1..Len(row) : ~IsNull(row[j])

\* C5: the 'drop fully-empty rows' sub-step removes exactly the rows whose
\* every cell is null at that point: no all-null row remains, and the rows
\* with a non-null cell all stay, in their order and with their values.
C5_DropEmptyRowsExact ==
    [][ (pc = "drop_empty" /\ pc' = "drop_any") =>
            /\ \A i \in 1..Len(df'.rows) : ~AllNull(df'.rows[i])
            /\ df'.rows = SelectSeq(df.rows, HasValue)
            /\ df'.cols = df.cols ]_vars

\* C5 witness: the sub-step has run on a table with an all-null row, which it
\* removed, and has kept two different rows, one of them holding a null cell.
C5_Witness ==
    /\ pc = "drop_any"
    /\ before > Len(df.rows)
    /\ \E i, j \in 1..Len(df.rows) :
           i < j /\ df.rows[i] # df.rows[j] /\ AnyNull(df.rows[i])

UserDateNames ==
    IF IsNone(args_date_cols) THEN {}
    ELSE {normalize_col_name(Strip(p)) : p \in Range(Split(Value(args_date_cols), ","))}

\* C7 (as claimed): whenever --date-cols is given (any value, also an empty
\* one or one of commas and whitespace), main() does not call
\* auto_detect_date_cols and process_dataframe gets only normalized
\* user-supplied names as its date columns.
C7_NoAutoDetectWhenGiven ==
    ~IsNone(args_date_cols) =>
        /\ "auto_detect_date_cols" \notin called
        /\ Range(date_cols) \subseteq UserDateNames

Column(d, j) == [i \in 1..Len(d.rows) |-> d.rows[i][j]]

\* the columns in the date column set that the Renamer gave a name outside it
RenamedOutOfDateSet ==
    {j \in 1..Len(orig_cols) :
        LET c == normalize_col_name(orig_cols[j])
        IN  /\ c \in Range(date_cols)
            /\ c \in Keys(rename_map_normalized)
            /\ Lookup(rename_map_normalized, c) \notin Range(date_cols)}
NotFoundWarning(c) == [kind |-> "date_col_not_found", text |-> c]

\* C9 (as claimed): a column of the date column set that the rename mapping
\* renames to a name outside the set is not coerced: the Date Coercer finds its
\* old name absent, skips it as 'not found', and the cells reach the
\* Missing-Value Resolver unparsed.
C9_RenamedDateColNotFound ==
    [][ (pc = "parse_dates" /\ pc' = "drop_empty") =>
            \A j \in RenamedOutOfDateSet :
                LET c == normalize_col_name(orig_cols[j])
                IN  /\ c \notin Range(df.cols)
                    /\ NotFoundWarning(c) \in warnings'
                    /\ Column(df', j) = Column(df, j) ]_vars

\* C9 (amended): such a column is not coerced and its cells reach the
\* Missing-Value Resolver unparsed; its old name is skipped as 'not found'
\* exactly when no column bears that name after the renaming.
C9_RenamedDateColNotCoerced ==
    [][ (pc = "parse_dates" /\ pc' = "drop_empty") =>
            \A j \in RenamedOutOfDateSet :
                LET c == normalize_col_name(orig_cols[j])
                IN  /\ Column(df', j) = Column(df, j)
                    /\ c \notin Range(df.cols) <=> NotFoundWarning(c) \in warnings' ]_vars

\* C9 witness: the Date Coercer has run, a date column that held a parsable
\* date was renamed out of the date column set, its old name was reported as
\* not found and the date text is still a text.
C9_Witness ==
    /\ pc = "drop_empty"
    /\ \E j \in RenamedOutOfDateSet :
           /\ NotFoundWarning(normalize_col_name(orig_cols[j])) \in warnings
           /\ \E i \in 1..Len(df.rows) :
                  df.rows[i][j].kind = "str" /\ df.rows[i][j].val \in DateTexts

----------------------------------------------------------------------------
\* NumberGuessingGame of game.py.

\* the limits difficulty() returns
EasyLimit == 20
MediumLimit == 50
HardLimit == 100

\* what the player types at a menu
Choices == {"1", "2", "3", "other"}
\* the integers the player guesses (int(input(...)) accepts any integer)
Guesses == {-1, 0, 1, 2, 20, 21, 50, 99, 100, 101}

Min(S) == CHOOSE m \in S : \A x \in S : m <= x

\* A bug: the comparison of start() the wrong way round.
NewBestWorse(best, att) ==
    IF IsNone(best) \/ att > Value(best) THEN Some(att) ELSE best

\* if self.best_score is None or attempts < self.best_score: self.best_score = attempts
NewBest(best, att) ==
    IF IsNone(best) \/ att < Value(best) THEN Some(att) ELSE best

GameInit ==
    /\ TextIdle /\ MainIdle
    /\ gpc = "menu"
    /\ best_score = None
    /\ limit = 0 /\ number = 0 /\ attempts = 0
    /\ parsed_inputs = 0 /\ invalid_inputs = 0
    /\ returned = <<>>

\* start(): choice "1", self.start_game() is entered
MenuStartGame ==
    /\ gpc = "menu"
    /\ Len(returned) < MaxGames
    /\ gpc' = "difficulty"
    /\ UNCHANGED <<best_score, limit, number, attempts, parsed_inputs, invalid_inputs,
                   returned, textVars, mainVars>>

\* start(): choice "2", show_best_score() prints and changes nothing
MenuShowBest ==
    /\ gpc = "menu"
    /\ UNCHANGED vars

\* start(): choice "3", the loop is left
MenuExit ==
    /\ gpc = "menu"
    /\ gpc' = "exited"
    /\ UNCHANGED <<best_score, limit, number, attempts, parsed_inputs, invalid_inputs,
                   returned, textVars, mainVars>>

\* start(): any other choice, "Invalid choice! Try again."
MenuInvalid ==
    /\ gpc = "menu"
    /\ UNCHANGED vars

\* difficulty() and the first lines of start_game(): the limit chosen, the
\* number drawn, attempts = 0; an invalid choice asks again
ChooseDifficulty ==
    /\ gpc = "difficulty"
    /\ \E choice \in Choices :
           IF choice = "other"
           THEN UNCHANGED <<gpc, limit, number, attempts, parsed_inputs, invalid_inputs>>
           ELSE /\ limit' = (CASE choice = "1" -> EasyLimit
                               [] choice = "2" -> MediumLimit
                               [] choice = "3" -> HardLimit)
                /\ number' \in 1..limit'
                /\ attempts' = 0
                /\ parsed_inputs' = 0 /\ invalid_inputs' = 0
                /\ gpc' = "guess"
    /\ UNCHANGED <<best_score, returned, textVars, mainVars>>

\* int(input(...)) raises ValueError: "Invalid input! Enter a number."
GuessInvalid ==
    /\ gpc = "guess"
    /\ invalid_inputs < MaxInvalid
    /\ invalid_inputs' = invalid_inputs + 1
    /\ UNCHANGED <<gpc, best_score, limit, number, attempts, parsed_inputs, returned,
                   textVars, mainVars>>

\* a guess that is too low or too high: attempts += 1 and the loop goes on
GuessWrong ==
    /\ gpc = "guess"
    /\ attempts < MaxAttempts
    /\ \E guess \in Guesses :
           /\ guess # number
           /\ attempts' = attempts + 1
           /\ parsed_inputs' = parsed_inputs + 1
    /\ UNCHANGED <<gpc, best_score, limit, number, invalid_inputs, returned,
                   textVars, mainVars>>

\* the right guess: attempts += 1; return attempts
GuessCorrect ==
    /\ gpc = "guess"
    /\ attempts < MaxAttempts
    /\ \E guess \in Guesses :
           /\ guess = number
           /\ attempts' = attempts + 1
           /\ parsed_inputs' = parsed_inputs + 1
           /\ returned' = Append(returned, attempts')
    /\ gpc' = "update_best"
    /\ UNCHANGED <<best_score, limit, number, invalid_inputs, textVars, mainVars>>

\* start(): the best score is updated with what start_game() returned
UpdateBest ==
    /\ gpc = "update_best"
    /\ best_score' = NewBest(best_score, attempts)
    /\ gpc' = "menu"
    /\ UNCHANGED <<limit, number, attempts, parsed_inputs, invalid_inputs, returned,
                   textVars, mainVars>>

GameNext ==
    \/ MenuStartGame \/ MenuShowBest \/ MenuExit \/ MenuInvalid
    \/ ChooseDifficulty \/ GuessInvalid \/ GuessWrong \/ GuessCorrect \/ UpdateBest

SpecGame == GameInit /\ [][GameNext]_vars

----------------------------------------------------------------------------
\* Claims about the game (checked under SpecGame).

\* the values start_game() has returned whose update of best_score is done
Completed ==
    IF gpc = "update_best" THEN SubSeq(returned, 1, Len(returned) - 1) ELSE returned

BestScoreIsMinimum ==
    /\ IsNone(best_score) <=> Completed = <<>>
    /\ Completed # <<>> => best_score = Some(Min(Range(Completed)))
    /\ \A i \in 1..Len(returned) : returned[i] >= 1
    /\ gpc \in {"guess", "update_best"} => attempts = parsed_inputs
    /\ gpc = "update_best" => returned[Len(returned)] = parsed_inputs

BestScoreNeverIncreases ==
    ~IsNone(best_score) =>
        (~IsNone(best_score') /\ Value(best_score') <= Value(best_score))

\* C10: best_score is None exactly when no game has been completed and is
\* otherwise the least value start_game() returned; every returned value is at
\* least 1 and counts exactly the guesses that parsed as integers; best_score
\* never increases.
C10_BestScore == []BestScoreIsMinimum /\ [][BestScoreNeverIncreases]_vars

\* C10 witness: two games completed, the second with more attempts than the
\* first and with an invalid input, and best_score still the first result.
C10_Witness ==
    /\ gpc = "menu"
    /\ Len(returned) = 2
    /\ returned[1] < returned[2]
    /\ invalid_inputs > 0
    /\ best_score = Some(returned[1])

====
